---- MODULE Spec2Model ----
(***************************************************************************)
(* Fediverse-User-Growth: the grouping pipeline (RenderPlot.group_data),   *)
(* the render call (RenderPlot.render) and the month-granular cache        *)
(* (DataDownloader), as state machines.                                    *)
(*                                                                         *)
(* Three specifications share the module:                                  *)
(*   SpecGroup     group_data applied to a record list                     *)
(*   Spec          one render call after another on a RenderPlot object    *)
(*   SpecDownload  calls of DataDownloader against a server and a clock    *)
(***************************************************************************)
EXTENDS Integers, Sequences, FiniteSets, TLC

VARIABLES
    data,          \* RenderPlot.data: the record list given to __init__
    pc,            \* position of the running call
    group_by,      \* argument of group_data / render
    chart_type,    \* argument of render
    date_from,     \* argument, replaced by its datetime once converted
    date_to,       \* argument, replaced by its datetime once converted
    grouped,       \* what group_data returned or raised
    outcome,       \* what render returned or raised
    drawn,         \* drawing operations performed so far, in order
    known_events,  \* render's local known_events
    ev_i,          \* index of the next event of the annotation loop
    annotations,   \* ax.annotate calls made so far, in order
    annotations_offset, \* render's local dict: x_pos -> stacked offsets
    diagnostics,   \* event dates printed as unparseable, in order
    cache,         \* the cache file: absent, or its content and mtime
    now,           \* the wall clock, as a calendar date
    last           \* the last DataDownloader call and what it did

vars == <<data, pc, group_by, chart_type, date_from, date_to, grouped, outcome,
          drawn, known_events, ev_i, annotations, annotations_offset,
          diagnostics, cache, now, last>>

renderVars == <<data, pc, group_by, chart_type, date_from, date_to, grouped,
                outcome, drawn, known_events, ev_i, annotations,
                annotations_offset, diagnostics>>

downloadVars == <<cache, now, last>>

----------------------------------------------------------------------------
(* Bounds of the model *)

\* longest record list given to RenderPlot
MaxRecords == 2

\* longest list read from data/known_events.json
MaxEvents == 2

SeqsUpTo(S, n) == UNION {[1..k -> S] : k \in 0..n}

----------------------------------------------------------------------------
(* Text: a string is a sequence of characters, compared by code point *)

DigitChars == <<"0", "1", "2", "3", "4", "5", "6", "7", "8", "9">>

DigitChar(n) == DigitChars[n + 1]

CharCode(c) ==
    IF c = "-" THEN 45
    ELSE IF c = "W" THEN 87
    ELSE 48 + (CHOOSE n \in 0..9 : DigitChars[n + 1] = c)

RECURSIVE Dec(_)
Dec(n) == IF n < 10 THEN <<DigitChar(n)>>
          ELSE Dec(n \div 10) \o <<DigitChar(n % 10)>>

RECURSIVE ZeroPad(_, _)
ZeroPad(s, w) == IF Len(s) >= w THEN s ELSE ZeroPad(<<"0">> \o s, w)

\* Python's str < str
RECURSIVE StrLess(_, _)
StrLess(a, b) ==
    IF b = <<>> THEN FALSE
    ELSE IF a = <<>> THEN TRUE
    ELSE IF CharCode(Head(a)) # CharCode(Head(b))
         THEN CharCode(Head(a)) < CharCode(Head(b))
    ELSE StrLess(Tail(a), Tail(b))

----------------------------------------------------------------------------
(* Timestamps.  A timestamp text is the fields a reader of                  *)
(* 'YYYY-MM-DD HH:MM:SS' finds in it; shaped is FALSE for a text that does  *)
(* not have that shape at all ('not-a-date', the empty string).             *)

Text(Y, m, d, H, M, S) ==
    [shaped |-> TRUE, Y |-> Y, m |-> m, d |-> d, H |-> H, M |-> M, S |-> S]

NotADate == [shaped |-> FALSE, Y |-> 1, m |-> 0, d |-> 0, H |-> 0, M |-> 0, S |-> 0]

EmptyText == [shaped |-> FALSE, Y |-> 0, m |-> 0, d |-> 0, H |-> 0, M |-> 0, S |-> 0]

IsLeap(Y) == Y % 4 = 0 /\ (Y % 100 # 0 \/ Y % 400 = 0)

DaysInMonth(Y, m) ==
    IF m = 2 THEN (IF IsLeap(Y) THEN 29 ELSE 28)
    ELSE IF m \in {4, 6, 9, 11} THEN 30 ELSE 31

NoDt == <<0, 0, 0, 0, 0, 0>>

\* datetime.strptime(text, '%Y-%m-%d %H:%M:%S'): a datetime, or ValueError
Strptime(t) ==
    IF /\ t.shaped
       /\ t.Y \in 1..9999
       /\ t.m \in 1..12
       /\ t.d \in 1..DaysInMonth(t.Y, t.m)
       /\ t.H \in 0..23
       /\ t.M \in 0..59
       /\ t.S \in 0..59
    THEN [ok |-> TRUE, dt |-> <<t.Y, t.m, t.d, t.H, t.M, t.S>>]
    ELSE [ok |-> FALSE, dt |-> NoDt]

\* datetime < datetime: field by field, year first
RECURSIVE DtLess(_, _)
DtLess(a, b) ==
    IF a = <<>> \/ b = <<>> THEN FALSE
    ELSE IF Head(a) # Head(b) THEN Head(a) < Head(b)
    ELSE DtLess(Tail(a), Tail(b))

DaysBeforeYear(Y) ==
    (Y - 1) * 365 + ((Y - 1) \div 4) - ((Y - 1) \div 100) + ((Y - 1) \div 400)

RECURSIVE DaysBeforeMonth(_, _)
DaysBeforeMonth(Y, m) ==
    IF m = 1 THEN 0 ELSE DaysBeforeMonth(Y, m - 1) + DaysInMonth(Y, m - 1)

\* proleptic Gregorian ordinal, 0001-01-01 is day 1
Ymd2Ord(Y, m, d) == DaysBeforeYear(Y) + DaysBeforeMonth(Y, m) + d

\* ordinal of the Monday that starts ISO week 1 of year Y
IsoWeek1Monday(Y) ==
    LET firstday == Ymd2Ord(Y, 1, 1)
        firstweekday == (firstday + 6) % 7
        week1monday == firstday - firstweekday
    IN IF firstweekday > 3 THEN week1monday + 7 ELSE week1monday

\* dt.isocalendar(): <<ISO year, ISO week>>
IsoCalendar(dt) ==
    LET today == Ymd2Ord(dt[1], dt[2], dt[3])
        diff == today - IsoWeek1Monday(dt[1])
    IN IF diff < 0
       THEN <<dt[1] - 1, ((today - IsoWeek1Monday(dt[1] - 1)) \div 7) + 1>>
       ELSE IF diff \div 7 >= 52 /\ today >= IsoWeek1Monday(dt[1] + 1)
            THEN <<dt[1] + 1, 1>>
       ELSE <<dt[1], (diff \div 7) + 1>>

----------------------------------------------------------------------------
(* RenderPlot.group_data *)

GROUP_DAY == "day"

GROUP_WEEK == "week"

GROUP_MONTH == "month"

CHART_BAR == "bar"

CHART_LINE == "line"

\* an optional bound: None, a string still to be parsed, or a datetime
None == [kind |-> "none", text |-> EmptyText, dt |-> NoDt]

StrArg(t) == [kind |-> "str", text |-> t, dt |-> NoDt]

DtArg(dt) == [kind |-> "dt", text |-> EmptyText, dt |-> dt]

\* lines 66-69 and 119-122: a string bound is parsed, anything else is kept
ConvertBound(b) ==
    IF b.kind = "str"
    THEN (IF Strptime(b.text).ok
          THEN [ok |-> TRUE, val |-> DtArg(Strptime(b.text).dt)]
          ELSE [ok |-> FALSE, val |-> b])
    ELSE [ok |-> TRUE, val |-> b]

\* the bucket key of a datetime
BucketKey(g, dt) ==
    IF g = GROUP_DAY
    THEN ZeroPad(Dec(dt[1]), 4) \o <<"-">> \o ZeroPad(Dec(dt[2]), 2)
         \o <<"-">> \o ZeroPad(Dec(dt[3]), 2)
    ELSE IF g = GROUP_WEEK
    THEN Dec(dt[1]) \o <<"-", "W">> \o ZeroPad(Dec(IsoCalendar(dt)[2]), 2)
    ELSE ZeroPad(Dec(dt[1]), 4) \o <<"-">> \o ZeroPad(Dec(dt[2]), 2)

\* record.get('total_users', 0)
GetTotalUsers(rec) == IF rec.has_total_users THEN rec.total_users ELSE 0

\* a lower bound that leaves out the record dated exactly date_from
SkipFromExclusive(dt, from) ==
    from.kind # "none" /\ (DtLess(dt, from.dt) \/ dt = from.dt)

\* "if date_from is not None and dt < date_from: continue"
SkipFrom(dt, from) == from.kind # "none" /\ DtLess(dt, from.dt)

\* "if date_to is not None and dt > date_to: continue"
SkipTo(dt, to) == to.kind # "none" /\ DtLess(to.dt, dt)

\* groups[key] = n: the last record of a bucket replaces the sum
AddToGroupOverwrite(groups, key, n) ==
    IF \E j \in 1..Len(groups) : groups[j].key = key
    THEN [j \in 1..Len(groups) |->
            IF groups[j].key = key THEN [key |-> key, sum |-> n] ELSE groups[j]]
    ELSE Append(groups, [key |-> key, sum |-> n])

\* groups.setdefault(key, 0); groups[key] += n   (a dict keeps insertion order)
AddToGroup(groups, key, n) ==
    IF \E j \in 1..Len(groups) : groups[j].key = key
    THEN [j \in 1..Len(groups) |->
            IF groups[j].key = key
            THEN [key |-> key, sum |-> groups[j].sum + n]
            ELSE groups[j]]
    ELSE Append(groups, [key |-> key, sum |-> n])

\* sorted(groups.items(), key=lambda x: x[0])
RECURSIVE SortedGroups(_)
SortedGroups(groups) ==
    IF groups = <<>> THEN <<>>
    ELSE LET least == CHOOSE j \in 1..Len(groups) :
                        \A k \in 1..Len(groups) :
                            k = j \/ StrLess(groups[j].key, groups[k].key)
                            \/ (groups[j].key = groups[k].key /\ j < k)
             rest == [k \in 1..(Len(groups) - 1) |->
                        IF k < least THEN groups[k] ELSE groups[k + 1]]
         IN <<groups[least]>> \o SortedGroups(rest)

Returned(groups) ==
    [status |-> "ok", error |-> "", value |-> EmptyText,
     x |-> [j \in 1..Len(groups) |-> groups[j].key],
     y |-> [j \in 1..Len(groups) |-> groups[j].sum]]

Raised(kind, value) ==
    [status |-> "error", error |-> kind, value |-> value, x |-> <<>>, y |-> <<>>]

\* a record loop that skips the record it cannot parse
OnBadRecordSkip(rest, t) == rest

\* the except branch of the record loop: ValueError naming the value
OnBadRecord(rest, t) == Raised("MalformedRecord", t)

\* the for loop over self.data, from record i on
RECURSIVE GroupLoop(_, _, _, _, _, _)
GroupLoop(recs, i, groups, g, from, to) ==
    IF i > Len(recs) THEN Returned(SortedGroups(groups))
    ELSE LET p == Strptime(recs[i].date_checked)
         IN IF ~p.ok
            THEN OnBadRecord(GroupLoop(recs, i + 1, groups, g, from, to),
                             recs[i].date_checked)
            ELSE IF SkipFrom(p.dt, from) \/ SkipTo(p.dt, to)
            THEN GroupLoop(recs, i + 1, groups, g, from, to)
            ELSE GroupLoop(recs, i + 1,
                           AddToGroup(groups, BucketKey(g, p.dt),
                                      GetTotalUsers(recs[i])),
                           g, from, to)

ValidGroupBy(g) == g \in {GROUP_DAY, GROUP_WEEK, GROUP_MONTH}

\* group_data(group_by, date_from, date_to)
GroupData(recs, g, from, to) ==
    IF ~ValidGroupBy(g) THEN Raised("InvalidGroupBy", EmptyText)
    ELSE IF ~ConvertBound(from).ok THEN Raised("BadDateFrom", from.text)
    ELSE IF ~ConvertBound(to).ok THEN Raised("BadDateTo", to.text)
    ELSE GroupLoop(recs, 1, <<>>, g, ConvertBound(from).val, ConvertBound(to).val)

----------------------------------------------------------------------------
(* Values of the variables that a specification does not use *)

NoResult == [status |-> "none", error |-> "", value |-> EmptyText,
             x |-> <<>>, y |-> <<>>]

\* a JSON document, as far as ['data']['monthlystats'] reads it
Body(has_data, has_stats, stats) ==
    [has_data |-> has_data, has_monthlystats |-> has_stats, stats |-> stats]

NoBody == Body(FALSE, FALSE, "")

NoTime == <<0, 0, 0>>

NoCache == [exists |-> FALSE, body |-> NoBody, mtime |-> NoTime]

NoCall == [op |-> "none", force |-> FALSE, at |-> NoTime, requests |-> 0,
           status |-> 0, result |-> "none", records |-> "", error_status |-> 0,
           error_text |-> "", before |-> NoCache]

RenderIdle ==
    /\ pc = "idle"
    /\ group_by = GROUP_DAY
    /\ chart_type = CHART_BAR
    /\ date_from = None
    /\ date_to = None
    /\ grouped = NoResult
    /\ outcome = "none"
    /\ drawn = <<>>
    /\ known_events = <<>>
    /\ ev_i = 0
    /\ annotations = <<>>
    /\ annotations_offset = <<>>
    /\ diagnostics = <<>>

RenderLocalsReset ==
    /\ grouped' = NoResult
    /\ drawn' = <<>>
    /\ known_events' = <<>>
    /\ ev_i' = 0
    /\ annotations' = <<>>
    /\ annotations_offset' = <<>>
    /\ diagnostics' = <<>>

DownloadIdle ==
    /\ cache = NoCache
    /\ now = NoTime
    /\ last = NoCall

----------------------------------------------------------------------------
(* SpecGroup: group_data applied to the records of a RenderPlot *)

\* timestamps around the 2024/2025 year boundary, where the calendar year
\* and the ISO year of a date differ, and two texts strptime rejects
GroupTexts ==
    { Text(2024, 1, 1, 0, 0, 0),      \* Monday, ISO 2024-W01
      Text(2024, 12, 29, 0, 0, 0),    \* Sunday, ISO 2024-W52
      Text(2024, 12, 30, 0, 0, 0),    \* Monday, ISO 2025-W01
      Text(2025, 1, 1, 1, 1, 1),      \* Wednesday, ISO 2025-W01
      Text(2025, 2, 1, 0, 0, 0),      \* Saturday, ISO 2025-W05
      Text(2025, 2, 30, 0, 0, 0),     \* no such day
      NotADate }

Record(t, n) == [date_checked |-> t, has_total_users |-> TRUE, total_users |-> n]

RecordWithoutUsers(t) ==
    [date_checked |-> t, has_total_users |-> FALSE, total_users |-> 0]

GroupRecords ==
    {Record(t, n) : t \in GroupTexts, n \in {1, 2}}
    \cup {RecordWithoutUsers(t) : t \in GroupTexts}

GroupByArgs == {GROUP_DAY, GROUP_WEEK, GROUP_MONTH, "year"}

GroupFromArgs ==
    {None, StrArg(Text(2024, 12, 30, 0, 0, 0)), DtArg(<<2024, 12, 29, 0, 0, 0>>),
     StrArg(NotADate)}

GroupToArgs ==
    {None, StrArg(Text(2024, 12, 30, 0, 0, 0)), DtArg(<<2025, 1, 1, 1, 1, 1>>)}

GroupInit ==
    /\ data \in SeqsUpTo(GroupRecords, MaxRecords)
    /\ RenderIdle
    /\ DownloadIdle

\* a call of group_data
GroupDataCall ==
    /\ pc = "idle"
    /\ \E g \in GroupByArgs, from \in GroupFromArgs, to \in GroupToArgs :
        /\ group_by' = g
        /\ date_from' = from
        /\ date_to' = to
        /\ grouped' = GroupData(data, g, from, to)
    /\ pc' = "returned"
    /\ UNCHANGED <<data, chart_type, outcome, drawn, known_events, ev_i,
                   annotations, annotations_offset, diagnostics, downloadVars>>

GroupNext == GroupDataCall

SpecGroup == GroupInit /\ [][GroupNext]_vars

----------------------------------------------------------------------------
(* RenderPlot.render *)

\* a render that does not check chart_type
ValidChartTypeAny(c) == TRUE

ValidChartType(c) == c \in {CHART_BAR, CHART_LINE}

\* key_to_index = {key: i for i, key in enumerate(x_values)}
KeyToIndex(xs, key) == (CHOOSE j \in 1..Len(xs) : xs[j] = key) - 1

KeyInIndex(xs, key) == \E j \in 1..Len(xs) : xs[j] = key

\* the calls made on ax before the events are read
ChartCalls(c, ys) ==
    <<"subplots">>
    \o (IF c = CHART_BAR THEN <<"bar">>
        ELSE IF c = CHART_LINE THEN <<"plot">> ELSE <<>>)
    \o <<"set_title", "set_xlabel", "set_ylabel", "set_xticks",
         "set_xticklabels", "set_major_formatter">>
    \o (IF c = CHART_BAR THEN [j \in 1..Len(ys) |-> "text"] ELSE <<>>)

\* event.get('date', '')
GetEventDate(e) == IF e.has_date THEN e.date ELSE EmptyText

\* an event key that ignores the granularity
EventKeyMonthOnly(g, dt) ==
    ZeroPad(Dec(dt[1]), 4) \o <<"-">> \o ZeroPad(Dec(dt[2]), 2)

\* the event's key, computed by render's own copy of the key rules
EventKey(g, dt) ==
    IF g = GROUP_DAY
    THEN ZeroPad(Dec(dt[1]), 4) \o <<"-">> \o ZeroPad(Dec(dt[2]), 2)
         \o <<"-">> \o ZeroPad(Dec(dt[3]), 2)
    ELSE IF g = GROUP_WEEK
    THEN Dec(dt[1]) \o <<"-", "W">> \o ZeroPad(Dec(IsoCalendar(dt)[2]), 2)
    ELSE ZeroPad(Dec(dt[1]), 4) \o <<"-">> \o ZeroPad(Dec(dt[2]), 2)

\* the state of the annotation loop; an offset counts base_offset units
NoAnnotations == [annotations |-> <<>>, offsets |-> <<>>, diagnostics |-> <<>>,
                  raised |-> FALSE]

\* an event loop that lets the parse error out
OnBadEventDateRaise(acc, t) == [acc EXCEPT !.raised = TRUE]

\* the except branch of the event loop: print the date and continue
OnBadEventDate(acc, t) == [acc EXCEPT !.diagnostics = Append(@, t)]

\* ax.annotate(...) and the bookkeeping of annotations_offset
PlaceAnnotation(acc, label, x_pos, y_point) ==
    LET offset == IF x_pos \in DOMAIN acc.offsets THEN acc.offsets[x_pos] ELSE 1
    IN [acc EXCEPT
          !.annotations = Append(@, [label |-> label, x_pos |-> x_pos,
                                     y_point |-> y_point, offset |-> offset]),
          !.offsets = [k \in (DOMAIN acc.offsets) \cup {x_pos} |->
                          IF k = x_pos THEN offset + 1 ELSE acc.offsets[k]]]

\* one iteration of "for event in known_events"
AnnotateOne(acc, e, g, from, to, xs, ys) ==
    LET p == Strptime(GetEventDate(e))
    IN IF ~p.ok THEN OnBadEventDate(acc, GetEventDate(e))
       ELSE IF SkipFrom(p.dt, from) \/ SkipTo(p.dt, to) THEN acc
       ELSE IF KeyInIndex(xs, EventKey(g, p.dt))
       THEN PlaceAnnotation(acc, e.label, KeyToIndex(xs, EventKey(g, p.dt)),
                            ys[KeyToIndex(xs, EventKey(g, p.dt)) + 1])
       ELSE acc

----------------------------------------------------------------------------
(* DataDownloader *)

HTTP_OK == 200

\* cached_data['data']['monthlystats'], or KeyError
HasMonthlyStats(body) == body.has_data /\ body.has_monthlystats

\* what a call gives back: the records, or the exception it raised
ReturnRecords(body) ==
    [result |-> "records", records |-> body.stats, error_status |-> 0,
     error_text |-> ""]

Raise(what, status, text) ==
    [result |-> what, records |-> "", error_status |-> status,
     error_text |-> text]

\* open(self.cache_file, 'r'), json.load and the lookup
ReadCache(c) ==
    IF HasMonthlyStats(c.body) THEN ReturnRecords(c.body)
    ELSE Raise("CachedStructure", 0, "")

\* a download that writes the cache file before it looks at the status
DownloadWriteFirst(c, t, resp) ==
    [cache |-> [exists |-> TRUE, body |-> resp.body, mtime |-> t],
     requests |-> 1,
     out |-> IF resp.status # HTTP_OK
             THEN Raise("QueryFailed", resp.status, resp.text)
             ELSE IF HasMonthlyStats(resp.body) THEN ReturnRecords(resp.body)
             ELSE Raise("FetchedStructure", 0, "")]

\* requests.post and what follows it: on 200 the document is written to the
\* cache file, then looked into
Download(c, t, resp) ==
    IF resp.status = HTTP_OK
    THEN [cache |-> [exists |-> TRUE, body |-> resp.body, mtime |-> t],
          requests |-> 1,
          out |-> IF HasMonthlyStats(resp.body) THEN ReturnRecords(resp.body)
                  ELSE Raise("FetchedStructure", 0, "")]
    ELSE [cache |-> c, requests |-> 1,
          out |-> Raise("QueryFailed", resp.status, resp.text)]

\* get_monthly_stats(force_download)
GetMonthlyStatsOf(c, t, force, resp) ==
    IF ~force /\ c.exists
    THEN [cache |-> c, requests |-> 0, out |-> ReadCache(c)]
    ELSE Download(c, t, resp)

\* need_update of get_monthly_stats_cached
NeedUpdate(c, t) ==
    ~(c.exists /\ c.mtime[1] = t[1] /\ c.mtime[2] = t[2])

\* get_monthly_stats_cached()
GetMonthlyStatsCachedOf(c, t, resp) ==
    IF NeedUpdate(c, t)
    THEN GetMonthlyStatsOf(c, t, TRUE, resp)
    ELSE [cache |-> c, requests |-> 0, out |-> ReadCache(c)]

----------------------------------------------------------------------------
(* What the grouping is meant to compute, stated over the input alone *)

\* a datetime on the time line: its day number and its second of the day
DayNumber(dt) == Ymd2Ord(dt[1], dt[2], dt[3])

SecondOfDay(dt) == dt[4] * 3600 + dt[5] * 60 + dt[6]

NotAfter(a, b) ==
    \/ DayNumber(a) < DayNumber(b)
    \/ (DayNumber(a) = DayNumber(b) /\ SecondOfDay(a) <= SecondOfDay(b))

Parses(i) == Strptime(data[i].date_checked).ok

DtOf(i) == Strptime(data[i].date_checked).dt

BoundGiven(b) == b.kind # "none"

BoundDt(b) == IF b.kind = "str" THEN Strptime(b.text).dt ELSE b.dt

BoundUsable(b) == b.kind = "str" => Strptime(b.text).ok

\* date_from <= dt <= date_to, for whichever bound is supplied
InRange(dt) ==
    /\ BoundGiven(date_from) => NotAfter(BoundDt(date_from), dt)
    /\ BoundGiven(date_to) => NotAfter(dt, BoundDt(date_to))

Included == {i \in 1..Len(data) : Parses(i) /\ InRange(DtOf(i))}

KeyOf(i) == BucketKey(group_by, DtOf(i))

UsersOf(i) == IF data[i].has_total_users THEN data[i].total_users ELSE 0

RECURSIVE SumUsers(_)
SumUsers(S) ==
    IF S = {} THEN 0
    ELSE LET i == CHOOSE j \in S : TRUE IN UsersOf(i) + SumUsers(S \ {i})

RECURSIVE SumSeq(_)
SumSeq(s) == IF s = <<>> THEN 0 ELSE Head(s) + SumSeq(Tail(s))

ArgsUsable == ValidGroupBy(group_by) /\ BoundUsable(date_from) /\ BoundUsable(date_to)

AllParse == \A i \in 1..Len(data) : Parses(i)

GroupReturned == pc = "returned" /\ grouped.status = "ok"

StrLeq(a, b) == a = b \/ StrLess(a, b)

\* the bucket a datetime lies in: its calendar day, ISO week or calendar month
BucketOf(g, dt) ==
    IF g = GROUP_DAY THEN <<dt[1], dt[2], dt[3]>>
    ELSE IF g = GROUP_WEEK THEN IsoCalendar(dt)
    ELSE <<dt[1], dt[2]>>

----------------------------------------------------------------------------
(* Claims about group_data, checked under SpecGroup *)

\* C1: the returned keys are strictly increasing as strings, the string
\* order of keys is the chronological order of the included records, and
\* two included records share a key only when they lie in the same calendar
\* day, ISO week or calendar month (for every granularity, week included).
C1_KeysChronological ==
    GroupReturned =>
        /\ \A j, k \in 1..Len(grouped.x) :
              j < k => StrLess(grouped.x[j], grouped.x[k])
        /\ \A i, j \in Included :
              NotAfter(DtOf(i), DtOf(j)) => StrLeq(KeyOf(i), KeyOf(j))
        /\ \A i, j \in Included :
              KeyOf(i) = KeyOf(j) =>
                  BucketOf(group_by, DtOf(i)) = BucketOf(group_by, DtOf(j))

\* the same statement for the day and month granularities alone
KeysChronologicalDayMonth == group_by # GROUP_WEEK => C1_KeysChronological

\* C2: with parseable timestamps and usable arguments group_data returns,
\* the sum of the returned values is the sum of total_users (0 when absent)
\* over the records inside the inclusive range, and each bucket's value is
\* that sum over the included records with the bucket's key.
C2_SumConservation ==
    /\ (pc = "returned" /\ ArgsUsable /\ AllParse) => grouped.status = "ok"
    /\ GroupReturned =>
        /\ SumSeq(grouped.y) = SumUsers(Included)
        /\ Len(grouped.y) = Len(grouped.x)
        /\ \A j \in 1..Len(grouped.x) :
              grouped.y[j] = SumUsers({i \in Included : KeyOf(i) = grouped.x[j]})

C2_Witness ==
    /\ GroupReturned
    /\ Len(data) = 2
    /\ BoundGiven(date_from) /\ BoundGiven(date_to)
    /\ Included = {1, 2}
    /\ Len(grouped.x) = 1
    /\ grouped.y[1] = 3

\* C3: a record is included iff it lies inside the range, both ends
\* inclusive and an absent bound excluding nothing: the returned keys are
\* exactly the keys of the records in range; and when no record is in range
\* the result is the empty series, not an error.
C3_FilterInclusive ==
    /\ GroupReturned =>
          {grouped.x[j] : j \in 1..Len(grouped.x)} = {KeyOf(i) : i \in Included}
    /\ (pc = "returned" /\ ArgsUsable /\ AllParse /\ Included = {}) =>
          (grouped.status = "ok" /\ grouped.x = <<>> /\ grouped.y = <<>>)

C3_Witness ==
    /\ GroupReturned
    /\ BoundGiven(date_from) /\ BoundGiven(date_to)
    /\ Len(data) = 2
    /\ DtOf(1) = BoundDt(date_from)
    /\ DtOf(2) = BoundDt(date_to)
    /\ DtOf(1) # DtOf(2)
    /\ group_by = GROUP_DAY
    /\ Len(grouped.x) = 2

FirstMalformed == CHOOSE i \in 1..Len(data) :
                    ~Parses(i) /\ \A j \in 1..(i - 1) : Parses(j)

\* C4: when any record's date_checked does not parse, group_data raises and
\* returns no series, wherever the record sits and whatever the range is;
\* with usable arguments the error names the offending value.
C4_MalformedRecordStops ==
    (pc = "returned" /\ ~AllParse) =>
        /\ grouped.status = "error"
        /\ grouped.x = <<>> /\ grouped.y = <<>>
        /\ ArgsUsable =>
              /\ grouped.error = "MalformedRecord"
              /\ grouped.value = data[FirstMalformed].date_checked

C4_Witness ==
    /\ pc = "returned"
    /\ Len(data) = 2
    /\ Parses(1) /\ ~Parses(2)
    /\ BoundGiven(date_to)
    /\ ArgsUsable
    /\ grouped.error = "MalformedRecord"

----------------------------------------------------------------------------
(* Spec: render called on a RenderPlot, one call after another *)

RenderRecords ==
    { Record(Text(2024, 12, 30, 0, 0, 0), 1),
      Record(Text(2024, 1, 1, 0, 0, 0), 2),
      Record(NotADate, 1) }

RenderGroupBy == {GROUP_DAY, GROUP_WEEK, GROUP_MONTH, "year"}

RenderChartTypes == {CHART_BAR, CHART_LINE, "pie"}

\* <<date_from, date_to>> as the caller passes them
RenderRanges ==
    { <<None, None>>,
      <<StrArg(Text(2024, 12, 30, 0, 0, 0)), None>>,
      <<None, StrArg(Text(2024, 12, 30, 0, 0, 0))>>,
      <<DtArg(<<2024, 1, 1, 0, 0, 0>>), StrArg(Text(2025, 2, 1, 0, 0, 0))>>,
      <<StrArg(NotADate), None>>,
      <<None, StrArg(Text(2025, 2, 30, 0, 0, 0))>> }

Event(label, t) == [label |-> label, has_date |-> TRUE, date |-> t]

EventWithoutDate(label) == [label |-> label, has_date |-> FALSE, date |-> EmptyText]

\* what data/known_events.json may hold
KnownEvents ==
    { Event("A", Text(2024, 12, 29, 0, 0, 0)),
      Event("A", Text(2024, 12, 30, 0, 0, 0)),
      Event("B", Text(2024, 12, 30, 12, 0, 0)),
      Event("B", Text(2025, 1, 15, 0, 0, 0)),
      Event("A", Text(2025, 2, 30, 0, 0, 0)),
      EventWithoutDate("B") }

Init ==
    /\ data \in SeqsUpTo(RenderRecords, MaxRecords)
    /\ RenderIdle
    /\ DownloadIdle

\* render(group_by, chart_type, date_from, date_to) is entered and checks
\* chart_type
RenderCall ==
    /\ pc = "idle"
    /\ \E g \in RenderGroupBy, c \in RenderChartTypes, r \in RenderRanges :
        /\ group_by' = g
        /\ chart_type' = c
        /\ date_from' = r[1]
        /\ date_to' = r[2]
        /\ IF ValidChartType(c)
           THEN pc' = "convert" /\ outcome' = "running"
           ELSE pc' = "raised" /\ outcome' = "InvalidChartType"
    /\ RenderLocalsReset
    /\ UNCHANGED <<data, downloadVars>>

\* string bounds are parsed; strptime's ValueError is not caught
ConvertDates ==
    /\ pc = "convert"
    /\ IF ~ConvertBound(date_from).ok
       THEN /\ pc' = "raised" /\ outcome' = "BadDateFrom"
            /\ UNCHANGED <<date_from, date_to>>
       ELSE IF ~ConvertBound(date_to).ok
       THEN /\ pc' = "raised" /\ outcome' = "BadDateTo"
            /\ date_from' = ConvertBound(date_from).val
            /\ UNCHANGED date_to
       ELSE /\ pc' = "group" /\ UNCHANGED outcome
            /\ date_from' = ConvertBound(date_from).val
            /\ date_to' = ConvertBound(date_to).val
    /\ UNCHANGED <<data, group_by, chart_type, grouped, drawn, known_events,
                   ev_i, annotations, annotations_offset, diagnostics,
                   downloadVars>>

\* x_values, y_values = self.group_data(group_by, date_from, date_to)
CallGroupData ==
    /\ pc = "group"
    /\ grouped' = GroupData(data, group_by, date_from, date_to)
    /\ IF grouped'.status = "error"
       THEN pc' = "raised" /\ outcome' = grouped'.error
       ELSE pc' = "draw" /\ UNCHANGED outcome
    /\ UNCHANGED <<data, group_by, chart_type, date_from, date_to, drawn,
                   known_events, ev_i, annotations, annotations_offset,
                   diagnostics, downloadVars>>

\* the figure, the bars or the line, the axis labels and the bar texts
DrawChart ==
    /\ pc = "draw"
    /\ drawn' = ChartCalls(chart_type, grouped.y)
    /\ pc' = "load"
    /\ UNCHANGED <<data, group_by, chart_type, date_from, date_to, grouped,
                   outcome, known_events, ev_i, annotations,
                   annotations_offset, diagnostics, downloadVars>>

\* data/known_events.json is read; a file that cannot be read gives no events
LoadEvents ==
    /\ pc = "load"
    /\ known_events' \in SeqsUpTo(KnownEvents, MaxEvents)
    /\ ev_i' = 1
    /\ pc' = "events"
    /\ UNCHANGED <<data, group_by, chart_type, date_from, date_to, grouped,
                   outcome, drawn, annotations, annotations_offset,
                   diagnostics, downloadVars>>

\* one iteration of the event loop
AnnotateEvent ==
    /\ pc = "events"
    /\ ev_i <= Len(known_events)
    /\ LET acc == AnnotateOne([annotations |-> annotations,
                               offsets |-> annotations_offset,
                               diagnostics |-> diagnostics,
                               raised |-> FALSE],
                              known_events[ev_i], group_by, date_from, date_to,
                              grouped.x, grouped.y)
       IN /\ annotations' = acc.annotations
          /\ annotations_offset' = acc.offsets
          /\ diagnostics' = acc.diagnostics
          /\ IF acc.raised
             THEN pc' = "raised" /\ outcome' = "EventError" /\ UNCHANGED ev_i
             ELSE ev_i' = ev_i + 1 /\ UNCHANGED <<pc, outcome>>
    /\ UNCHANGED <<data, group_by, chart_type, date_from, date_to, grouped,
                   drawn, known_events, downloadVars>>

\* plt.tight_layout(); plt.show()
Show ==
    /\ pc = "events"
    /\ ev_i > Len(known_events)
    /\ drawn' = drawn \o <<"tight_layout", "show">>
    /\ outcome' = "ok"
    /\ pc' = "done"
    /\ UNCHANGED <<data, group_by, chart_type, date_from, date_to, grouped,
                   known_events, ev_i, annotations, annotations_offset,
                   diagnostics, downloadVars>>

\* the call is over (returned or raised); the object is ready for the next
RenderReturn ==
    /\ pc \in {"done", "raised"}
    /\ pc' = "idle"
    /\ group_by' = GROUP_DAY
    /\ chart_type' = CHART_BAR
    /\ date_from' = None
    /\ date_to' = None
    /\ outcome' = "none"
    /\ RenderLocalsReset
    /\ UNCHANGED <<data, downloadVars>>

Next ==
    \/ RenderCall
    \/ ConvertDates
    \/ CallGroupData
    \/ DrawChart
    \/ LoadEvents
    \/ AnnotateEvent
    \/ Show
    \/ RenderReturn

Spec == Init /\ [][Next]_vars

----------------------------------------------------------------------------
(* Claims about render, checked under Spec *)

InEventLoop == pc \in {"events", "done"}

\* the events the loop has been through
Processed == SubSeq(known_events, 1, ev_i - 1)

SeriesKeys == {grouped.x[j] : j \in 1..Len(grouped.x)}

EventParses(e) == Strptime(GetEventDate(e)).ok

EventDt(e) == Strptime(GetEventDate(e)).dt

\* the event has a bucket of the series to be anchored to
Anchored(e) ==
    /\ EventParses(e)
    /\ InRange(EventDt(e))
    /\ BucketKey(group_by, EventDt(e)) \in SeriesKeys

\* the place of a key among the keys of the series, smallest first, from 0
RankOfKey(key) == Cardinality({k \in SeriesKeys : StrLess(k, key)})

RECURSIVE ExpectedAnchors(_)
ExpectedAnchors(evs) ==
    IF evs = <<>> THEN <<>>
    ELSE LET e == evs[Len(evs)]
             before == ExpectedAnchors(SubSeq(evs, 1, Len(evs) - 1))
         IN IF Anchored(e)
            THEN Append(before,
                        [label |-> e.label,
                         x_pos |-> RankOfKey(BucketKey(group_by, EventDt(e)))])
            ELSE before

PlacedAnchors ==
    [j \in 1..Len(annotations) |->
        [label |-> annotations[j].label, x_pos |-> annotations[j].x_pos]]

\* C5: the annotations placed are, in input order, exactly the events whose
\* date parses, lies in the inclusive range and has a key of the grouped
\* series, each at the index of its key in the sorted series; events that
\* share an index are all placed.
C5_EventAnnotation ==
    InEventLoop =>
        /\ PlacedAnchors = ExpectedAnchors(Processed)
        /\ \A j \in 1..Len(annotations) :
              annotations[j].y_point = grouped.y[annotations[j].x_pos + 1]

C5_Witness ==
    /\ pc = "done"
    /\ Len(grouped.x) = 2
    /\ BoundGiven(date_from)
    /\ PlacedAnchors = <<[label |-> "A", x_pos |-> 1], [label |-> "B", x_pos |-> 1]>>

\* the event loop run on a list from its start
RECURSIVE RunEvents(_)
RunEvents(evs) ==
    IF evs = <<>> THEN NoAnnotations
    ELSE AnnotateOne(RunEvents(SubSeq(evs, 1, Len(evs) - 1)), evs[Len(evs)],
                     group_by, date_from, date_to, grouped.x, grouped.y)

WellFormedEvents(evs) == SelectSeq(evs, EventParses)

RECURSIVE MalformedDates(_)
MalformedDates(evs) ==
    IF evs = <<>> THEN <<>>
    ELSE (IF EventParses(Head(evs)) THEN <<>> ELSE <<GetEventDate(Head(evs))>>)
         \o MalformedDates(Tail(evs))

NothingDrawn == drawn = <<>> /\ annotations = <<>>

FatalErrors ==
    {"InvalidChartType", "InvalidGroupBy", "BadDateFrom", "BadDateTo",
     "MalformedRecord"}

\* C8: an invalid chart_type, an invalid group_by, an unparseable bound and
\* a malformed record are raised before the first drawing operation: a call
\* that ended in one of them has drawn nothing, and a call that has got as
\* far as drawing has none of them, whatever the records are.
C8_FatalBeforeDrawing ==
    /\ outcome \in FatalErrors => (pc = "raised" /\ NothingDrawn)
    /\ pc = "raised" => outcome \in FatalErrors
    /\ (pc \in {"draw", "load", "events", "done"} \/ ~NothingDrawn) =>
        /\ chart_type \in {CHART_BAR, CHART_LINE}
        /\ group_by \in {GROUP_DAY, GROUP_WEEK, GROUP_MONTH}
        /\ date_from.kind # "str" /\ date_to.kind # "str"
        /\ AllParse
    /\ pc = "done" => (outcome = "ok" /\ drawn[Len(drawn)] = "show")

C8_Witness ==
    /\ pc = "raised"
    /\ outcome = "MalformedRecord"
    /\ Len(data) = 2
    /\ Parses(1)
    /\ NothingDrawn

----------------------------------------------------------------------------
(* SpecDownload: DataDownloader called again and again as time passes *)

\* calendar dates <<year, month, day>> the clock goes through
Clock ==
    << <<2024, 12, 1>>, <<2024, 12, 31>>, <<2025, 1, 1>>, <<2025, 1, 31>>,
       <<2025, 12, 1>>, <<2026, 1, 5>> >>

ClockIndex(t) == CHOOSE k \in 1..Len(Clock) : Clock[k] = t

GoodBodies == {Body(TRUE, TRUE, "stats-1"), Body(TRUE, TRUE, "stats-2")}

\* 200 answers without data.monthlystats: a GraphQL error document, and a
\* data object without the field
BadBodies == {Body(FALSE, FALSE, ""), Body(TRUE, FALSE, "")}

Responses ==
    {[status |-> HTTP_OK, text |-> "json", body |-> b] : b \in GoodBodies \cup BadBodies}
    \cup {[status |-> st, text |-> "failure", body |-> NoBody] : st \in {404, 500}}

DownloadInit ==
    /\ data = <<>>
    /\ RenderIdle
    /\ now \in {Clock[k] : k \in 1..Len(Clock)}
    /\ \/ cache = NoCache
       \/ \E b \in GoodBodies, k \in 1..ClockIndex(now) :
            cache = [exists |-> TRUE, body |-> b, mtime |-> Clock[k]]
    /\ last = NoCall

Called(op, force, resp, r) ==
    [op |-> op, force |-> force, at |-> now, requests |-> r.requests,
     status |-> IF r.requests = 0 THEN 0 ELSE resp.status,
     result |-> r.out.result, records |-> r.out.records,
     error_status |-> r.out.error_status, error_text |-> r.out.error_text,
     before |-> cache]

GetMonthlyStats ==
    /\ \E force \in BOOLEAN, resp \in Responses :
        LET r == GetMonthlyStatsOf(cache, now, force, resp)
        IN /\ cache' = r.cache
           /\ last' = Called("get_monthly_stats", force, resp, r)
    /\ UNCHANGED <<now, renderVars>>

GetMonthlyStatsCached ==
    /\ \E resp \in Responses :
        LET r == GetMonthlyStatsCachedOf(cache, now, resp)
        IN /\ cache' = r.cache
           /\ last' = Called("get_monthly_stats_cached", FALSE, resp, r)
    /\ UNCHANGED <<now, renderVars>>

\* time passes between two calls
Tick ==
    /\ \E k \in (ClockIndex(now) + 1)..Len(Clock) : now' = Clock[k]
    /\ UNCHANGED <<cache, last, renderVars>>

DownloadNext ==
    \/ GetMonthlyStats
    \/ GetMonthlyStatsCached
    \/ Tick

SpecDownload == DownloadInit /\ [][DownloadNext]_vars

----------------------------------------------------------------------------
(* Claims about DataDownloader, checked under SpecDownload *)

SameMonth(a, b) == a[1] = b[1] /\ a[2] = b[2]

\* stale: no cache file, or one modified in another calendar month or year
Stale(c, t) == ~c.exists \/ ~SameMonth(c.mtime, t)

CachedCall == last.op = "get_monthly_stats_cached"

\* C7: get_monthly_stats_cached downloads iff the cache is stale; with a
\* cache file modified in the current calendar month no request is sent and
\* the cached records are returned; records returned without a request come
\* from a cache modified in the current month.
C7_CacheFreshness ==
    CachedCall =>
        /\ last.requests = (IF Stale(last.before, last.at) THEN 1 ELSE 0)
        /\ ~Stale(last.before, last.at) =>
              /\ last.result = "records"
              /\ last.records = last.before.body.stats
              /\ cache = last.before
        /\ (last.result = "records" /\ last.requests = 0) =>
              (last.before.exists /\ SameMonth(last.before.mtime, last.at))

\* the freshness decision alone: a request is sent iff the cache is stale,
\* and a fresh cache is read and left as it is
FreshnessDecision ==
    CachedCall =>
        /\ last.requests = (IF Stale(last.before, last.at) THEN 1 ELSE 0)
        /\ ~Stale(last.before, last.at) =>
              (cache = last.before /\ last.result \in {"records", "CachedStructure"})
        /\ (last.result = "records" /\ last.requests = 0) =>
              (last.before.exists /\ SameMonth(last.before.mtime, last.at))

DownloadAttempted ==
    \/ last.op = "get_monthly_stats" /\ (last.force \/ ~last.before.exists)
    \/ CachedCall /\ Stale(last.before, last.at)

\* C9: a download that is answered with a status other than 200 raises an
\* error carrying the status and the response text, after exactly one
\* request, returns no records and leaves the cache file as it was.
C9_FetchFailure ==
    /\ DownloadAttempted => last.requests = 1
    /\ (last.requests = 1 /\ last.status # 200) =>
        /\ last.result = "QueryFailed"
        /\ last.error_status = last.status
        /\ last.error_text = "failure"
        /\ last.records = ""
        /\ cache = last.before
    /\ last.result = "QueryFailed" => (DownloadAttempted /\ last.status # 200)
    /\ last.requests \in {0, 1}

C9_Witness ==
    /\ CachedCall
    /\ last.result = "QueryFailed"
    /\ last.status = 500
    /\ last.before.exists
    /\ cache.body.stats = "stats-1"

WellFormed(c) == c.exists => (c.body.has_data /\ c.body.has_monthlystats)

\* C10: the cache file, if it exists, holds a document with
\* data.monthlystats; so no call fails on the cached structure, and a call
\* that failed on the fetched structure has not replaced the cache.
C10_CacheWellFormed ==
    /\ WellFormed(cache)
    /\ last.result # "CachedStructure"
    /\ last.result = "FetchedStructure" => cache = last.before

====
